---- MODULE Spec2Model ----
(***************************************************************************)
(* Trial-and-subscription lifecycle of the Glucify backend:                *)
(* TrialService (user_trials table and its two SQL aggregates),            *)
(* TrialController.createTrial, PaymentService (in-process subscription    *)
(* cache, beta-user set, payment-platform calls).                          *)
(*                                                                         *)
(* Every await of the TypeScript code is a separate step of the request    *)
(* that executes it; the code between two awaits is one atomic step.       *)
(* Time is counted in hours.                                               *)
(***************************************************************************)
EXTENDS Integers, Sequences, FiniteSets, TLC

\* ---------------------------------------------------------------- constants

TRIAL_DURATION_DAYS == 14
MAX_BETA_USERS == 100
HOURS_PER_DAY == 24
SUBSCRIPTION_WINDOW_DAYS == 365
CUSTOMER_LIST_LIMIT == 100

\* ------------------------------------------------------------------- bounds

\* number of operations (requests, webhooks, clock advances) in one behaviour
\* when requests are served concurrently
MaxOps == 2
\* and when they are served one after another
MaxSeqOps == 3
\* and when only the trial endpoints are called, one after another
MaxTrialOps == 5
\* and when only the operations that write user_trials are called, one after another
MaxQuotaOps == 4
\* and when only createSubscription and webhooks are served, one after another
MaxWebhookOps == 5
\* number of external calls (database, payment platform) that fail in one behaviour
MaxRaceOps == 4
MaxFaults == 1

\* acting users; rows of other users are preloaded (see Init)
Users == {1, 2}
\* user ids of the preloaded rows start after this base
BgBase == 1000
\* concurrently served requests
Slots == {1, 2}
\* sizes of the preloaded user_trials table
PreloadSizes == {0, MAX_BETA_USERS - 1}
\* amounts by which the clock advances between steps
ClockSteps == {HOURS_PER_DAY \div 2, 15 * HOURS_PER_DAY}
\* and when only the trial endpoints are called
TrialClockSteps == {HOURS_PER_DAY \div 2, HOURS_PER_DAY, 13 * HOURS_PER_DAY}
\* plan ids a client may send
RequestedPlans == {"beta-monthly", "beta-yearly", "regular-monthly", "regular-yearly", "no-such-plan"}
\* and the ones sent when only createSubscription and webhooks are served
WebhookSpecPlans == {"regular-yearly", "no-such-plan"}

VARIABLES
    rows,            \* user_trials table, in insertion order
    now,             \* wall clock
    subscriptions,   \* PaymentService: in-process Map userId -> UserSubscription
    betaUsers,       \* PaymentService: in-process Map userId -> BetaUser (its key set)
    betaUserCount,   \* PaymentService: in-process counter
    customers,       \* payment platform: customers, oldest first
    stripeSubs,      \* payment platform: subscription objects, oldest first
    task,            \* per slot: the request in flight and its local variables
    last,            \* the response of the operation that completed last
    prev,            \* the response of the operation that completed before it
    ops,             \* operations that may still start
    faults           \* external calls that may still fail

vars == <<rows, now, subscriptions, betaUsers, betaUserCount, customers,
          stripeSubs, task, last, prev, ops, faults>>

\* -------------------------------------------------------------- plan catalog

SUBSCRIPTION_PLANS ==
    << [id |-> "beta-monthly",    interval |-> "month", isBeta |-> TRUE,  stripePriceId |-> "price-beta-monthly"],
       [id |-> "beta-yearly",     interval |-> "year",  isBeta |-> TRUE,  stripePriceId |-> "price-beta-yearly"],
       [id |-> "regular-monthly", interval |-> "month", isBeta |-> FALSE, stripePriceId |-> "price-regular-monthly"],
       [id |-> "regular-yearly",  interval |-> "year",  isBeta |-> FALSE, stripePriceId |-> "price-regular-yearly"] >>

NoPlan == [id |-> "null", interval |-> "none", isBeta |-> FALSE, stripePriceId |-> "none"]

\* the lookup as it would be if an unknown id gave the regular monthly plan
getPlan_OrRegularMonthly(planId) ==
    IF \E i \in 1..Len(SUBSCRIPTION_PLANS) : SUBSCRIPTION_PLANS[i].id = planId
    THEN SUBSCRIPTION_PLANS[CHOOSE i \in 1..Len(SUBSCRIPTION_PLANS) :
                                SUBSCRIPTION_PLANS[i].id = planId]
    ELSE SUBSCRIPTION_PLANS[3]

getPlan(planId) ==
    IF \E i \in 1..Len(SUBSCRIPTION_PLANS) : SUBSCRIPTION_PLANS[i].id = planId
    THEN SUBSCRIPTION_PLANS[CHOOSE i \in 1..Len(SUBSCRIPTION_PLANS) :
                                /\ SUBSCRIPTION_PLANS[i].id = planId
                                /\ \A j \in 1..(i-1) : SUBSCRIPTION_PLANS[j].id # planId]
    ELSE NoPlan

\* ------------------------------------------------------- user_trials queries

RowIds == 1..Len(rows)

NoRow == [found |-> FALSE]

\* SQL get_beta_user_count()
get_beta_user_count ==
    Cardinality({i \in RowIds : rows[i].isBetaUser /\ rows[i].isActive})

\* SQL get_next_beta_user_number()
MaxOf(S) == IF S = {} THEN 0 ELSE CHOOSE m \in S : \A x \in S : x <= m

\* the aggregate as it would be if it returned the highest number given so far
get_next_beta_user_number_Highest ==
    MaxOf({rows[i].betaUserNumber : i \in {j \in RowIds : rows[j].isBetaUser}})

get_next_beta_user_number ==
    MaxOf({rows[i].betaUserNumber : i \in {j \in RowIds : rows[j].isBetaUser}}) + 1

\* TrialService.getBetaUserCount: the RPC's value, 0 when the RPC fails
getBetaUserCount(failed) ==
    IF failed THEN 0 ELSE get_beta_user_count

\* TrialService.getNextBetaUserNumber: the RPC's value, 1 when the RPC fails
getNextBetaUserNumber(failed) ==
    IF failed THEN 1 ELSE get_next_beta_user_number

ActiveRowsOf(userId) == {i \in RowIds : rows[i].userId = userId /\ rows[i].isActive}

\* .eq('user_id', userId).eq('is_active', true).single(): an error unless exactly one row
SingleActiveRow(userId, failed) ==
    IF failed \/ Cardinality(ActiveRowsOf(userId)) # 1
    THEN NoRow
    ELSE [found |-> TRUE, row |-> rows[CHOOSE i \in ActiveRowsOf(userId) : TRUE]]

\* TrialService.getUserTrial
getUserTrial(userId, failed) == SingleActiveRow(userId, failed)

\* TrialService.isBetaUser
isBetaUser(userId, failed) ==
    LET r == SingleActiveRow(userId, failed)
    IN  IF r.found THEN r.row.isBetaUser ELSE FALSE

\* TrialService.canGetBetaPricing, given the count it read and the isBetaUser it read
canGetBetaPricing(count, isBeta) ==
    IF count >= MAX_BETA_USERS
    THEN FALSE
    ELSE isBeta \/ count < MAX_BETA_USERS

NoStatus == [found |-> FALSE]

\* Math.ceil(a / b) for b > 0
CeilDiv(a, b) == -((-a) \div b)

\* the status as it would be if whole days only were counted
TrialStatusOf_WholeDays(trial) ==
    LET isInTrial == trial.isActive /\ now < trial.trialEndDate
    IN  [found              |-> TRUE,
         isInTrial          |-> isInTrial,
         trialDaysRemaining |-> IF isInTrial
                                THEN (trial.trialEndDate - now) \div HOURS_PER_DAY
                                ELSE 0,
         trialEndDate       |-> trial.trialEndDate,
         isBetaUser         |-> trial.isBetaUser,
         betaUserNumber     |-> trial.betaUserNumber,
         shouldShowPayment  |-> ~isInTrial]

\* the TrialStatus TrialService.getTrialStatus computes from the row it read
TrialStatusOf(trial) ==
    LET isInTrial == trial.isActive /\ now < trial.trialEndDate
    IN  [found              |-> TRUE,
         isInTrial          |-> isInTrial,
         trialDaysRemaining |-> IF isInTrial
                                THEN CeilDiv(trial.trialEndDate - now, HOURS_PER_DAY)
                                ELSE 0,
         trialEndDate       |-> trial.trialEndDate,
         isBetaUser         |-> trial.isBetaUser,
         betaUserNumber     |-> trial.betaUserNumber,
         shouldShowPayment  |-> ~isInTrial]

\* TrialService.getTrialStatus: null when the query fails or does not give one row
getTrialStatus(userId, failed) ==
    LET r == SingleActiveRow(userId, failed)
    IN  IF r.found THEN TrialStatusOf(r.row) ELSE NoStatus

\* the row as it would be if every trial were numbered, beta or not
NewTrial_EveryRowNumbered(userId, start, isBeta, number) ==
    [userId          |-> userId,
     trialStartDate  |-> start,
     trialEndDate    |-> start + TRIAL_DURATION_DAYS * HOURS_PER_DAY,
     isActive        |-> TRUE,
     isBetaUser      |-> isBeta,
     betaUserNumber  |-> IF isBeta THEN number ELSE Len(rows) + 1]

\* the row TrialService.createTrial inserts
NewTrial(userId, start, isBeta, number) ==
    [userId          |-> userId,
     trialStartDate  |-> start,
     trialEndDate    |-> start + TRIAL_DURATION_DAYS * HOURS_PER_DAY,
     isActive        |-> TRUE,
     isBetaUser      |-> isBeta,
     betaUserNumber  |-> IF isBeta THEN number ELSE 0]

\* endTrial as it would be if the UPDATE also withdrew the beta grant
endTrialRows_ClearBeta(userId) ==
    [i \in RowIds |->
        IF rows[i].userId = userId
        THEN [rows[i] EXCEPT !.isActive = FALSE, !.isBetaUser = FALSE, !.betaUserNumber = 0]
        ELSE rows[i]]

\* the UPDATE of TrialService.endTrial
endTrialRows(userId) ==
    [i \in RowIds |->
        IF rows[i].userId = userId THEN [rows[i] EXCEPT !.isActive = FALSE] ELSE rows[i]]

\* the rows a sweep would update if a trial expired at its end date, not after it
ExpiredRows_AtEndDate == {i \in RowIds : rows[i].isActive /\ rows[i].trialEndDate <= now}

\* the rows TrialService.cleanupExpiredTrials updates
ExpiredRows == {i \in RowIds : rows[i].isActive /\ rows[i].trialEndDate < now}

cleanupRows ==
    [i \in RowIds |->
        IF i \in ExpiredRows THEN [rows[i] EXCEPT !.isActive = FALSE] ELSE rows[i]]

\* the UPDATE at the end of PaymentService.createSubscription
subscriptionWindowRows(userId) ==
    [i \in RowIds |->
        IF rows[i].userId = userId
        THEN [rows[i] EXCEPT !.trialStartDate = now,
                             !.trialEndDate = now + SUBSCRIPTION_WINDOW_DAYS * HOURS_PER_DAY,
                             !.isActive = TRUE]
        ELSE rows[i]]


\* ------------------------------------------------------- requests in flight

NoSub == [found |-> FALSE]

IdleTask ==
    [pc |-> "idle", op |-> "none", userId |-> 0,
     start |-> 0, count |-> 0, isBeta |-> FALSE, number |-> 0,
     planId |-> "none", elig |-> FALSE, finalPlan |-> "none",
     cancelAtPeriodEnd |-> "undefined", phase |-> 0,
     customerId |-> 0, sub |-> NoSub, lookups |-> 0,
     listed |-> NoSub,        \* the subscription a listing answered, until it is cached
     countFailed |-> FALSE]   \* whether the count read of this request hit the error path

NewTask(op, userId, pc) == [IdleTask EXCEPT !.op = op, !.userId = userId, !.pc = pc]

\* the response of an operation; fields an operation does not set keep these values
Resp(op, userId, ok) ==
    [op |-> op, userId |-> userId, ok |-> ok, error |-> "none",
     requested |-> "none", applied |-> "none", elig |-> FALSE,
     flag |-> "undefined", sub |-> NoSub, lookups |-> 0, count |-> 0, rowId |-> 0,
     status |-> NoStatus, event |-> "none", subId |-> 0]

Failed(op, userId, error) == [Resp(op, userId, FALSE) EXCEPT !.error = error]

AllIdle == \A s \in Slots : task[s].pc = "idle"

\* an external call either succeeds or, while the fault budget lasts, fails
FaultChoices == IF faults > 0 THEN {FALSE, TRUE} ELSE {FALSE}

Charge(failed) == faults' = IF failed THEN faults - 1 ELSE faults

Begin(s, t) ==
    /\ task[s].pc = "idle"
    /\ ops > 0
    /\ ops' = ops - 1
    /\ task' = [task EXCEPT ![s] = t]
    /\ UNCHANGED <<last, prev>>

Continue(s, t) ==
    /\ task' = [task EXCEPT ![s] = t]
    /\ UNCHANGED <<last, prev, ops>>

Complete(s, resp) ==
    /\ task' = [task EXCEPT ![s] = IdleTask]
    /\ prev' = last
    /\ last' = resp
    /\ UNCHANGED ops

\* ------------------------------------------------ POST /api/trial/create

\* TrialController.createTrial up to its first await
StartTrialCreate(s, u) ==
    /\ Begin(s, NewTask("trialCreate", u, "tc_precheck"))
    /\ UNCHANGED <<rows, now, subscriptions, betaUsers, betaUserCount, customers,
                   stripeSubs, faults>>

\* the pre-check getUserTrial returns; on no trial TrialService.createTrial is entered
\* and runs up to its first await (trialStartDate = new Date())
TcPrecheck(s) ==
    /\ task[s].pc = "tc_precheck"
    /\ \E f \in FaultChoices :
          /\ Charge(f)
          /\ IF getUserTrial(task[s].userId, f).found
             THEN Complete(s, Failed("trialCreate", task[s].userId, "already-active"))
             ELSE Continue(s, [task[s] EXCEPT !.pc = "ct_count", !.start = now])
    /\ UNCHANGED <<rows, now, subscriptions, betaUsers, betaUserCount, customers, stripeSubs>>

\* TrialService.createTrial called directly, up to its first await
StartCreateTrial(s, u) ==
    /\ Begin(s, [NewTask("createTrial", u, "ct_count") EXCEPT !.start = now])
    /\ UNCHANGED <<rows, now, subscriptions, betaUsers, betaUserCount, customers,
                   stripeSubs, faults>>

\* createTrial: getBetaUserCount returns
CtCount(s) ==
    /\ task[s].pc = "ct_count"
    /\ \E f \in FaultChoices :
          /\ Charge(f)
          /\ LET count == getBetaUserCount(f)
                 beta  == count < MAX_BETA_USERS
             IN  Continue(s, [task[s] EXCEPT !.count = count, !.isBeta = beta,
                                             !.countFailed = f,
                                             !.pc = IF beta THEN "ct_number" ELSE "ct_insert"])
    /\ UNCHANGED <<rows, now, subscriptions, betaUsers, betaUserCount, customers, stripeSubs>>

\* createTrial: getNextBetaUserNumber returns
CtNumber(s) ==
    /\ task[s].pc = "ct_number"
    /\ \E f \in FaultChoices :
          /\ Charge(f)
          /\ Continue(s, [task[s] EXCEPT !.number = getNextBetaUserNumber(f), !.pc = "ct_insert"])
    /\ UNCHANGED <<rows, now, subscriptions, betaUsers, betaUserCount, customers, stripeSubs>>

\* createTrial as it would be if the insert counted the active beta rows again, in one
\* step with the insert
CtInsert_CountedAtInsert(s) ==
    /\ task[s].pc = "ct_insert"
    /\ \E f \in FaultChoices :
          /\ Charge(f)
          /\ IF f
             THEN /\ rows' = rows
                  /\ Complete(s, Failed(task[s].op, task[s].userId, "Failed to create trial"))
             ELSE /\ rows' = Append(rows, NewTrial(task[s].userId, task[s].start,
                                                  task[s].isBeta /\ get_beta_user_count < MAX_BETA_USERS,
                                                  task[s].number))
                  /\ Complete(s, [Resp(task[s].op, task[s].userId, TRUE) EXCEPT
                                     !.rowId = Len(rows) + 1, !.count = task[s].count])
    /\ UNCHANGED <<now, subscriptions, betaUsers, betaUserCount, customers, stripeSubs>>

\* createTrial: the insert returns
CtInsert(s) ==
    /\ task[s].pc = "ct_insert"
    /\ \E f \in FaultChoices :
          /\ Charge(f)
          /\ IF f
             THEN /\ rows' = rows
                  /\ Complete(s, Failed(task[s].op, task[s].userId, "Failed to create trial"))
             ELSE /\ rows' = Append(rows, NewTrial(task[s].userId, task[s].start,
                                                  task[s].isBeta, task[s].number))
                  /\ Complete(s, [Resp(task[s].op, task[s].userId, TRUE) EXCEPT
                                     !.rowId = Len(rows) + 1, !.count = task[s].count])
    /\ UNCHANGED <<now, subscriptions, betaUsers, betaUserCount, customers, stripeSubs>>

\* ------------------------- GET /api/trial/status, POST /api/trial/end, /cleanup

\* TrialService.getTrialStatus: one SELECT, then the computation
GetTrialStatus(s, u) ==
    /\ task[s].pc = "idle"
    /\ ops > 0
    /\ ops' = ops - 1
    /\ \E f \in FaultChoices :
          /\ Charge(f)
          /\ last' = [Resp("getTrialStatus", u, TRUE) EXCEPT !.status = getTrialStatus(u, f)]
    /\ prev' = last
    /\ UNCHANGED <<rows, now, subscriptions, betaUsers, betaUserCount, customers, stripeSubs, task>>


\* endTrial as it would be if it reported an error when its UPDATE matched no active row
EndTrial_RequireActiveRow(s, u) ==
    /\ task[s].pc = "idle"
    /\ ops > 0
    /\ ops' = ops - 1
    /\ \E f \in FaultChoices :
          /\ Charge(f)
          /\ IF f \/ ActiveRowsOf(u) = {}
             THEN /\ rows' = rows
                  /\ last' = Failed("endTrial", u, "Failed to end trial")
             ELSE /\ rows' = endTrialRows(u)
                  /\ last' = Resp("endTrial", u, TRUE)
    /\ prev' = last
    /\ UNCHANGED <<now, subscriptions, betaUsers, betaUserCount, customers, stripeSubs, task>>

\* TrialService.endTrial: one UPDATE
EndTrial(s, u) ==
    /\ task[s].pc = "idle"
    /\ ops > 0
    /\ ops' = ops - 1
    /\ \E f \in FaultChoices :
          /\ Charge(f)
          /\ IF f
             THEN /\ rows' = rows
                  /\ last' = Failed("endTrial", u, "Failed to end trial")
             ELSE /\ rows' = endTrialRows(u)
                  /\ last' = Resp("endTrial", u, TRUE)
    /\ prev' = last
    /\ UNCHANGED <<now, subscriptions, betaUsers, betaUserCount, customers, stripeSubs, task>>

\* TrialService.cleanupExpiredTrials: one UPDATE ... RETURNING id
CleanupExpiredTrials(s) ==
    /\ task[s].pc = "idle"
    /\ ops > 0
    /\ ops' = ops - 1
    /\ \E f \in FaultChoices :
          /\ Charge(f)
          /\ IF f
             THEN /\ rows' = rows
                  /\ last' = Failed("cleanupExpiredTrials", 0, "Failed to cleanup expired trials")
             ELSE /\ rows' = cleanupRows
                  /\ last' = [Resp("cleanupExpiredTrials", 0, TRUE) EXCEPT
                                 !.count = Cardinality(ExpiredRows)]
    /\ prev' = last
    /\ UNCHANGED <<now, subscriptions, betaUsers, betaUserCount, customers, stripeSubs, task>>

\* the wall clock advances
Tick ==
    /\ ops > 0
    /\ ops' = ops - 1
    /\ \E d \in ClockSteps : now' = now + d
    /\ UNCHANGED <<rows, subscriptions, betaUsers, betaUserCount, customers, stripeSubs,
                   task, last, prev, faults>>

\* the wall clock advances by half a day, a day or thirteen days
TickDays ==
    /\ ops > 0
    /\ ops' = ops - 1
    /\ \E d \in TrialClockSteps : now' = now + d
    /\ UNCHANGED <<rows, subscriptions, betaUsers, betaUserCount, customers, stripeSubs,
                   task, last, prev, faults>>

\* --------------------------------------------------------- payment platform

CustomerIds == 1..Len(customers)
SubIds == 1..Len(stripeSubs)

\* stripe.customers.list({email, limit: 1}): the newest customer with the user's email, or 0
customersListByEmail(userId) ==
    MaxOf({c \in CustomerIds : customers[c].email = userId})

\* PaymentService.findCustomerByUserId: among the newest 100 customers, the first listed
\* (the newest) whose metadata names the user, or 0
findCustomerByUserId(userId, failed) ==
    IF failed
    THEN 0
    ELSE MaxOf({c \in CustomerIds : /\ c > Len(customers) - CUSTOMER_LIST_LIMIT
                                    /\ customers[c].userId = userId})

\* stripe.subscriptions.list({customer, limit: 1, status: 'all'}): the newest one, or 0
subscriptionsList(customerId) ==
    MaxOf({i \in SubIds : stripeSubs[i].customer = customerId})

\* the platform rejects an update or a cancellation of a subscription already canceled
PlatformRefuses(subId) == stripeSubs[subId].status = "canceled"

\* the billing period the platform gives a new subscription
PlatformPeriod(interval) == IF interval = "month" THEN 30 * HOURS_PER_DAY ELSE 365 * HOURS_PER_DAY

\* the object stripe.subscriptions.create makes
NewStripeSubscription(customerId, userId, plan) ==
    [customer |-> customerId,
     price |-> plan.stripePriceId,
     userId |-> userId,
     planId |-> plan.id,
     isBetaUser |-> plan.isBeta,
     status |-> "incomplete",
     current_period_start |-> now,
     current_period_end |-> now + PlatformPeriod(plan.interval),
     trial_end |-> 0,
     cancel_at_period_end |-> FALSE]

\* ------------------------------------------------------------ PaymentService

\* plan correction that keeps a beta plan for the eligible and gives everyone else the
\* regular monthly plan, whatever interval was requested
FinalPlan_MonthlyFallback(plan, isBetaEligible) ==
    IF isBetaEligible /\ plan.isBeta THEN plan ELSE getPlan("regular-monthly")

\* plan correction of createSubscription
FinalPlan(plan, isBetaEligible) ==
    IF plan.isBeta /\ ~isBetaEligible
    THEN IF plan.interval = "month" THEN getPlan("regular-monthly") ELSE getPlan("regular-yearly")
    ELSE IF ~plan.isBeta /\ isBetaEligible
         THEN IF plan.interval = "month" THEN getPlan("beta-monthly") ELSE getPlan("beta-yearly")
         ELSE plan

\* the cached record as it would be if it mirrored the platform's status
CreatedSubscription_PlatformStatus(subId, userId, customerId, plan) ==
    [found |-> TRUE,
     id |-> subId,
     userId |-> userId,
     stripeCustomerId |-> customerId,
     stripeSubscriptionId |-> subId,
     planId |-> plan.id,
     status |-> stripeSubs'[subId].status,
     currentPeriodStart |-> stripeSubs'[subId].current_period_start,
     currentPeriodEnd |-> stripeSubs'[subId].current_period_end,
     trialEnd |-> 0,
     cancelAtPeriodEnd |-> FALSE]

\* the record createSubscription caches and returns
CreatedSubscription(subId, userId, customerId, plan) ==
    [found |-> TRUE,
     id |-> subId,
     userId |-> userId,
     stripeCustomerId |-> customerId,
     stripeSubscriptionId |-> subId,
     planId |-> plan.id,
     status |-> "active",
     currentPeriodStart |-> stripeSubs'[subId].current_period_start,
     currentPeriodEnd |-> stripeSubs'[subId].current_period_end,
     trialEnd |-> 0,
     cancelAtPeriodEnd |-> FALSE]

\* the record getUserSubscription builds from the platform's subscription on a cache miss
FetchedSubscription(subId, userId, customerId) ==
    [found |-> TRUE,
     id |-> subId,
     userId |-> userId,
     stripeCustomerId |-> customerId,
     stripeSubscriptionId |-> subId,
     planId |-> getPlan(stripeSubs[subId].planId).id,
     status |-> stripeSubs[subId].status,
     currentPeriodStart |-> stripeSubs[subId].current_period_start,
     currentPeriodEnd |-> stripeSubs[subId].current_period_end,
     trialEnd |-> stripeSubs[subId].trial_end,
     cancelAtPeriodEnd |-> stripeSubs[subId].cancel_at_period_end]

UnchangedPayment == UNCHANGED <<subscriptions, betaUsers, betaUserCount, customers, stripeSubs>>

\* ---- TrialService.canGetBetaPricing, called by GET /api/trial/beta-eligibility
\* ---- and by createSubscription

StartCanGetBetaPricing(s, u) ==
    /\ Begin(s, NewTask("canGetBetaPricing", u, "bp_count"))
    /\ UNCHANGED <<rows, now, faults>>
    /\ UnchangedPayment

\* what follows canGetBetaPricing once it has its result
AfterEligibility(s, t, elig) ==
    IF t.op = "canGetBetaPricing"
    THEN Complete(s, [Resp(t.op, t.userId, TRUE) EXCEPT !.elig = elig, !.count = t.count])
    ELSE Continue(s, [t EXCEPT !.elig = elig,
                               !.finalPlan = FinalPlan(getPlan(t.planId), elig).id,
                               !.pc = "cs_customer_list"])

\* canGetBetaPricing: getBetaUserCount returns
BpCount(s) ==
    /\ task[s].pc = "bp_count"
    /\ \E f \in FaultChoices :
          /\ Charge(f)
          /\ LET count == getBetaUserCount(f)
                 t == [task[s] EXCEPT !.count = count, !.countFailed = f]
             IN  IF count >= MAX_BETA_USERS
                 THEN AfterEligibility(s, t, canGetBetaPricing(count, FALSE))
                 ELSE Continue(s, [t EXCEPT !.pc = "bp_is_beta"])
    /\ UNCHANGED <<rows, now>>
    /\ UnchangedPayment

\* canGetBetaPricing: isBetaUser returns
BpIsBeta(s) ==
    /\ task[s].pc = "bp_is_beta"
    /\ \E f \in FaultChoices :
          /\ Charge(f)
          /\ LET beta == isBetaUser(task[s].userId, f)
             IN  AfterEligibility(s, [task[s] EXCEPT !.isBeta = beta],
                                  canGetBetaPricing(task[s].count, beta))
    /\ UNCHANGED <<rows, now>>
    /\ UnchangedPayment

\* ---- PaymentService.createSubscription

\* up to the first await; an unknown plan fails at once
StartCreateSubscription(s, u, planId) ==
    /\ IF getPlan(planId) = NoPlan
       THEN /\ task[s].pc = "idle"
            /\ ops > 0
            /\ ops' = ops - 1
            /\ prev' = last
            /\ last' = [Failed("createSubscription", u, "Failed to create subscription")
                           EXCEPT !.requested = planId]
            /\ UNCHANGED task
       ELSE Begin(s, [NewTask("createSubscription", u, "bp_count") EXCEPT !.planId = planId])
    /\ UNCHANGED <<rows, now, faults>>
    /\ UnchangedPayment

CsFailed(s) ==
    Complete(s, [Failed("createSubscription", task[s].userId, "Failed to create subscription")
                    EXCEPT !.requested = task[s].planId, !.elig = task[s].elig])

\* createOrGetCustomer: stripe.customers.list returns
CsCustomerList(s) ==
    /\ task[s].pc = "cs_customer_list"
    /\ \E f \in FaultChoices :
          /\ Charge(f)
          /\ IF f
             THEN CsFailed(s)
             ELSE LET c == customersListByEmail(task[s].userId)
                  IN  IF c # 0
                      THEN Continue(s, [task[s] EXCEPT !.customerId = c, !.pc = "cs_end_trial"])
                      ELSE Continue(s, [task[s] EXCEPT !.pc = "cs_customer_create"])
    /\ UNCHANGED <<rows, now>>
    /\ UnchangedPayment

\* createOrGetCustomer: stripe.customers.create returns
CsCustomerCreate(s) ==
    /\ task[s].pc = "cs_customer_create"
    /\ \E f \in FaultChoices :
          /\ Charge(f)
          /\ IF f
             THEN /\ CsFailed(s)
                  /\ UNCHANGED customers
             ELSE /\ customers' = Append(customers, [email |-> task[s].userId,
                                                     userId |-> task[s].userId])
                  /\ Continue(s, [task[s] EXCEPT !.customerId = Len(customers) + 1,
                                                 !.pc = "cs_end_trial"])
    /\ UNCHANGED <<rows, now, subscriptions, betaUsers, betaUserCount, stripeSubs>>

\* createSubscription as it would be if it left the trial alone until the platform had
\* created the subscription
CsEndTrial_Skipped(s) ==
    /\ task[s].pc = "cs_end_trial"
    /\ \E f \in FaultChoices :
          /\ Charge(f)
          /\ IF f
             THEN CsFailed(s)
             ELSE Continue(s, [task[s] EXCEPT !.pc = "cs_stripe_create"])
    /\ UNCHANGED <<rows, now>>
    /\ UnchangedPayment

\* TrialService.endTrial returns
CsEndTrial(s) ==
    /\ task[s].pc = "cs_end_trial"
    /\ \E f \in FaultChoices :
          /\ Charge(f)
          /\ IF f
             THEN /\ CsFailed(s)
                  /\ UNCHANGED rows
             ELSE /\ rows' = endTrialRows(task[s].userId)
                  /\ Continue(s, [task[s] EXCEPT !.pc = "cs_stripe_create"])
    /\ UNCHANGED now
    /\ UnchangedPayment

\* stripe.subscriptions.create returns; beta tracking and the cache write follow at once
CsStripeCreate(s) ==
    /\ task[s].pc = "cs_stripe_create"
    /\ \E f \in FaultChoices :
          /\ Charge(f)
          /\ IF f
             THEN /\ CsFailed(s)
                  /\ UNCHANGED <<subscriptions, betaUsers, betaUserCount, stripeSubs>>
             ELSE LET u == task[s].userId
                      plan == getPlan(task[s].finalPlan)
                      id == Len(stripeSubs) + 1
                  IN  /\ stripeSubs' = Append(stripeSubs,
                                              NewStripeSubscription(task[s].customerId, u, plan))
                      /\ betaUsers' = IF plan.isBeta THEN betaUsers \cup {u} ELSE betaUsers
                      /\ betaUserCount' = IF plan.isBeta THEN betaUserCount + 1 ELSE betaUserCount
                      /\ subscriptions' = [subscriptions EXCEPT ![u] =
                                              CreatedSubscription(id, u, task[s].customerId, plan)]
                      /\ Continue(s, [task[s] EXCEPT !.sub = subscriptions'[u],
                                                     !.pc = "cs_window"])
    /\ UNCHANGED <<rows, now, customers>>

\* the user_trials window update returns (its failure is swallowed)
CsWindow(s) ==
    /\ task[s].pc = "cs_window"
    /\ \E f \in FaultChoices :
          /\ Charge(f)
          /\ rows' = IF f THEN rows ELSE subscriptionWindowRows(task[s].userId)
    /\ Complete(s, [Resp("createSubscription", task[s].userId, TRUE) EXCEPT
                       !.requested = task[s].planId, !.applied = task[s].finalPlan,
                       !.elig = task[s].elig, !.sub = task[s].sub])
    /\ UNCHANGED now
    /\ UnchangedPayment


\* ---- PaymentService.getUserSubscription, also called by updateSubscription
\* ---- and cancelSubscription

GetFailed(s, t) ==
    Complete(s, [Failed(t.op, t.userId,
                        IF t.op = "getUserSubscription" THEN "Failed to get subscription"
                        ELSE IF t.op = "updateSubscription" THEN "Failed to update subscription"
                        ELSE "Failed to cancel subscription")
                    EXCEPT !.requested = t.planId, !.lookups = t.lookups])

\* the callers as they would be if updateSubscription and cancelSubscription took a
\* missing subscription for nothing to do
AfterGet_MissingIsDone(s, t, sub) ==
    IF t.op = "getUserSubscription"
    THEN Complete(s, [Resp(t.op, t.userId, TRUE) EXCEPT !.sub = sub, !.lookups = t.lookups])
    ELSE IF ~sub.found
    THEN Complete(s, [Resp(t.op, t.userId, TRUE) EXCEPT
                         !.requested = t.planId, !.lookups = t.lookups])
    ELSE IF t.op = "updateSubscription" /\ t.phase = 1
    THEN Continue(s, [t EXCEPT !.sub = sub, !.pc = "us_retrieve"])
    ELSE IF t.op = "updateSubscription"
    THEN Complete(s, [Resp(t.op, t.userId, TRUE) EXCEPT
                         !.sub = sub, !.requested = t.planId, !.flag = t.cancelAtPeriodEnd,
                         !.lookups = t.lookups])
    ELSE Continue(s, [t EXCEPT !.sub = sub, !.pc = "cn_cancel"])

\* what the caller does with the subscription getUserSubscription returned (NoSub: null)
AfterGet(s, t, sub) ==
    IF t.op = "getUserSubscription"
    THEN Complete(s, [Resp(t.op, t.userId, TRUE) EXCEPT !.sub = sub, !.lookups = t.lookups])
    ELSE IF ~sub.found
    THEN GetFailed(s, t)
    ELSE IF t.op = "updateSubscription" /\ t.phase = 1
    THEN Continue(s, [t EXCEPT !.sub = sub, !.pc = "us_retrieve"])
    ELSE IF t.op = "updateSubscription"
    THEN Complete(s, [Resp(t.op, t.userId, TRUE) EXCEPT
                         !.sub = sub, !.requested = t.planId, !.flag = t.cancelAtPeriodEnd,
                         !.lookups = t.lookups])
    ELSE Continue(s, [t EXCEPT !.sub = sub, !.pc = "cn_cancel"])

\* getUserSubscription up to its first await: the cache is read, a hit returns at once
GetEnter(s, t) ==
    IF subscriptions[t.userId].found
    THEN AfterGet(s, t, subscriptions[t.userId])
    ELSE Continue(s, [t EXCEPT !.pc = "gs_customer"])

\* an operation that begins with getUserSubscription
StartWithGet(s, t) ==
    /\ task[s].pc = "idle"
    /\ ops > 0
    /\ ops' = ops - 1
    /\ IF subscriptions[t.userId].found
       THEN IF t.op = "getUserSubscription"
            THEN /\ prev' = last
                 /\ last' = [Resp(t.op, t.userId, TRUE) EXCEPT !.sub = subscriptions[t.userId]]
                 /\ UNCHANGED task
            ELSE /\ task' = [task EXCEPT ![s] =
                               [t EXCEPT !.sub = subscriptions[t.userId],
                                         !.pc = IF t.op = "updateSubscription"
                                                THEN "us_retrieve" ELSE "cn_cancel"]]
                 /\ UNCHANGED <<last, prev>>
       ELSE /\ task' = [task EXCEPT ![s] = [t EXCEPT !.pc = "gs_customer"]]
            /\ UNCHANGED <<last, prev>>
    /\ UNCHANGED <<rows, now, faults>>
    /\ UnchangedPayment

StartGetUserSubscription(s, u) ==
    StartWithGet(s, NewTask("getUserSubscription", u, "idle"))

\* findCustomerByUserId returns
GsCustomer(s) ==
    /\ task[s].pc = "gs_customer"
    /\ \E f \in FaultChoices :
          /\ Charge(f)
          /\ LET c == findCustomerByUserId(task[s].userId, f)
                 t == [task[s] EXCEPT !.customerId = c, !.lookups = @ + 1]
             IN  IF c = 0
                 THEN AfterGet(s, t, NoSub)
                 ELSE Continue(s, [t EXCEPT !.pc = "gs_list"])
    /\ UNCHANGED <<rows, now>>
    /\ UnchangedPayment

\* the platform answers stripe.subscriptions.list: the answer carries the subscription
\* as it is at this moment; a failure and an empty list end the lookup
GsList(s) ==
    /\ task[s].pc = "gs_list"
    /\ \E f \in FaultChoices :
          /\ Charge(f)
          /\ LET t == [task[s] EXCEPT !.lookups = @ + 1]
                 i == subscriptionsList(t.customerId)
             IN  IF f
                 THEN GetFailed(s, t)
                 ELSE IF i = 0
                 THEN AfterGet(s, t, NoSub)
                 ELSE Continue(s, [t EXCEPT !.listed = FetchedSubscription(i, t.userId,
                                                                           t.customerId),
                                            !.pc = "gs_cache"])
    /\ UNCHANGED <<rows, now>>
    /\ UnchangedPayment

\* the continuation after the listing: the listed subscription is written to the cache
\* and returned
GsCacheWrite(s) ==
    /\ task[s].pc = "gs_cache"
    /\ subscriptions' = [subscriptions EXCEPT ![task[s].userId] = task[s].listed]
    /\ AfterGet(s, [task[s] EXCEPT !.listed = NoSub], task[s].listed)
    /\ UNCHANGED <<rows, now, betaUsers, betaUserCount, customers, stripeSubs, faults>>

\* ---- PaymentService.updateSubscription

UpdatePlans == RequestedPlans \cup {"undefined"}
CancelFlags == {"undefined", "true", "false"}

StartUpdateSubscription(s, u, planId, flag) ==
    StartWithGet(s, [NewTask("updateSubscription", u, "idle") EXCEPT
                        !.planId = planId, !.cancelAtPeriodEnd = flag, !.phase = 1])

UsFailed(s) ==
    Complete(s, [Failed("updateSubscription", task[s].userId, "Failed to update subscription")
                    EXCEPT !.requested = task[s].planId])

\* the plan branch of updateSubscription and what follows it, up to the next await
UsPlanStage(s, t) ==
    IF t.planId # "undefined" /\ t.planId # t.sub.planId
    THEN IF getPlan(t.planId) = NoPlan
         THEN UsFailed(s)
         ELSE Continue(s, [t EXCEPT !.pc = "us_plan"])
    ELSE GetEnter(s, [t EXCEPT !.phase = 2])

\* stripe.subscriptions.retrieve returns
UsRetrieve(s) ==
    /\ task[s].pc = "us_retrieve"
    /\ \E f \in FaultChoices :
          /\ Charge(f)
          /\ IF f
             THEN UsFailed(s)
             ELSE IF task[s].cancelAtPeriodEnd # "undefined"
             THEN Continue(s, [task[s] EXCEPT !.pc = "us_cancel_flag"])
             ELSE UsPlanStage(s, task[s])
    /\ UNCHANGED <<rows, now>>
    /\ UnchangedPayment

\* stripe.subscriptions.update({cancel_at_period_end}) returns
UsCancelFlag(s) ==
    /\ task[s].pc = "us_cancel_flag"
    /\ \E f \in FaultChoices :
          /\ Charge(f)
          /\ IF f \/ PlatformRefuses(task[s].sub.stripeSubscriptionId)
             THEN /\ UsFailed(s)
                  /\ UNCHANGED stripeSubs
             ELSE /\ stripeSubs' = [stripeSubs EXCEPT ![task[s].sub.stripeSubscriptionId] =
                                       [@ EXCEPT !.cancel_at_period_end =
                                                     (task[s].cancelAtPeriodEnd = "true")]]
                  /\ UsPlanStage(s, task[s])
    /\ UNCHANGED <<rows, now, subscriptions, betaUsers, betaUserCount, customers>>

\* stripe.subscriptions.update({items, metadata}) returns
UsPlan(s) ==
    /\ task[s].pc = "us_plan"
    /\ \E f \in FaultChoices :
          /\ Charge(f)
          /\ IF f \/ PlatformRefuses(task[s].sub.stripeSubscriptionId)
             THEN /\ UsFailed(s)
                  /\ UNCHANGED stripeSubs
             ELSE /\ stripeSubs' = [stripeSubs EXCEPT ![task[s].sub.stripeSubscriptionId] =
                                       [@ EXCEPT !.price = getPlan(task[s].planId).stripePriceId,
                                                 !.planId = getPlan(task[s].planId).id]]
                  /\ GetEnter(s, [task[s] EXCEPT !.phase = 2])
    /\ UNCHANGED <<rows, now, subscriptions, betaUsers, betaUserCount, customers>>

\* ---- PaymentService.cancelSubscription

StartCancelSubscription(s, u) ==
    StartWithGet(s, NewTask("cancelSubscription", u, "idle"))

\* cancelSubscription as it would be if it left the cache entry in place
CnCancel_KeepCache(s) ==
    /\ task[s].pc = "cn_cancel"
    /\ \E f \in FaultChoices :
          /\ Charge(f)
          /\ IF f \/ PlatformRefuses(task[s].sub.stripeSubscriptionId)
             THEN /\ Complete(s, Failed("cancelSubscription", task[s].userId,
                                        "Failed to cancel subscription"))
                  /\ UNCHANGED stripeSubs
             ELSE /\ stripeSubs' = [stripeSubs EXCEPT ![task[s].sub.stripeSubscriptionId] =
                                       [@ EXCEPT !.status = "canceled"]]
                  /\ Complete(s, Resp("cancelSubscription", task[s].userId, TRUE))
    /\ UNCHANGED <<rows, now, subscriptions, betaUsers, betaUserCount, customers>>

\* stripe.subscriptions.cancel returns; the cache entry is evicted
CnCancel(s) ==
    /\ task[s].pc = "cn_cancel"
    /\ \E f \in FaultChoices :
          /\ Charge(f)
          /\ IF f \/ PlatformRefuses(task[s].sub.stripeSubscriptionId)
             THEN /\ Complete(s, Failed("cancelSubscription", task[s].userId,
                                        "Failed to cancel subscription"))
                  /\ UNCHANGED <<stripeSubs, subscriptions>>
             ELSE /\ stripeSubs' = [stripeSubs EXCEPT ![task[s].sub.stripeSubscriptionId] =
                                       [@ EXCEPT !.status = "canceled"]]
                  /\ subscriptions' = [subscriptions EXCEPT ![task[s].userId] = NoSub]
                  /\ Complete(s, Resp("cancelSubscription", task[s].userId, TRUE))
    /\ UNCHANGED <<rows, now, betaUsers, betaUserCount, customers>>

\* ---- PaymentService.handleWebhook

WebhookTypes == {"customer.subscription.created", "customer.subscription.updated",
                 "customer.subscription.deleted", "invoice.payment_succeeded",
                 "invoice.payment_failed", "unknown"}

\* handleSubscriptionUpdated applied to a cached (or held) subscription object
UpdatedInPlace(sub, event) ==
    [sub EXCEPT !.status = event.status,
                !.currentPeriodStart = event.current_period_start,
                !.currentPeriodEnd = event.current_period_end,
                !.trialEnd = IF event.trial_end # 0 THEN event.trial_end ELSE @,
                !.cancelAtPeriodEnd = event.cancel_at_period_end]

\* handleWebhook as it would be if an updated event of a user without a cache entry
\* created the entry
HandleWebhook_Upsert(type, i) ==
    /\ ops > 0
    /\ ops' = ops - 1
    /\ type = "customer.subscription.deleted" => stripeSubs[i].status = "canceled"
    /\ LET event == stripeSubs[i]
           u == event.userId
       IN  IF type = "customer.subscription.updated"
           THEN /\ subscriptions' = [subscriptions EXCEPT ![u] =
                                        IF @.found
                                        THEN UpdatedInPlace(@, event)
                                        ELSE FetchedSubscription(i, u, event.customer)]
                /\ task' = [s \in Slots |->
                               IF task[s].sub.found /\ task[s].sub = subscriptions[u]
                               THEN [task[s] EXCEPT !.sub = UpdatedInPlace(@, event)]
                               ELSE task[s]]
           ELSE IF type = "customer.subscription.deleted"
           THEN /\ subscriptions' = [subscriptions EXCEPT ![u] = NoSub]
                /\ UNCHANGED task
           ELSE UNCHANGED <<subscriptions, task>>
    /\ prev' = last
    /\ last' = [Resp("webhook", stripeSubs[i].userId, TRUE) EXCEPT !.event = type, !.subId = i]
    /\ UNCHANGED <<rows, now, betaUsers, betaUserCount, customers, stripeSubs, faults>>

\* an event about subscription i of the platform, carrying its present state
HandleWebhook(type, i) ==
    /\ ops > 0
    /\ ops' = ops - 1
    /\ type = "customer.subscription.deleted" => stripeSubs[i].status = "canceled"
    /\ LET event == stripeSubs[i]
           u == event.userId
       IN  IF type = "customer.subscription.updated" /\ subscriptions[u].found
           THEN /\ subscriptions' = [subscriptions EXCEPT ![u] = UpdatedInPlace(@, event)]
                \* a request that holds the same object sees the update
                /\ task' = [s \in Slots |->
                               IF task[s].sub = subscriptions[u]
                               THEN [task[s] EXCEPT !.sub = UpdatedInPlace(@, event)]
                               ELSE task[s]]
           ELSE IF type = "customer.subscription.deleted"
           THEN /\ subscriptions' = [subscriptions EXCEPT ![u] = NoSub]
                /\ UNCHANGED task
           ELSE UNCHANGED <<subscriptions, task>>
    /\ prev' = last
    /\ last' = [Resp("webhook", stripeSubs[i].userId, TRUE) EXCEPT !.event = type, !.subId = i]
    /\ UNCHANGED <<rows, now, betaUsers, betaUserCount, customers, stripeSubs, faults>>

\* a subscription is given a trial period at the payment platform, outside this program
\* (the events and listings the program reads carry trial_end)
PlatformStartsTrial(i) ==
    /\ ops > 0
    /\ ops' = ops - 1
    /\ stripeSubs[i].status # "canceled"
    /\ stripeSubs[i].trial_end = 0
    /\ stripeSubs' = [stripeSubs EXCEPT ![i] = [@ EXCEPT !.status = "trialing",
                                                        !.trial_end = now + 7 * HOURS_PER_DAY]]
    /\ UNCHANGED <<rows, now, subscriptions, betaUsers, betaUserCount, customers, task,
                   last, prev, faults>>

\* ------------------------------------------------------------ specifications

\* the table after n users (none of them acting later) signed up one after another at time 0
Preloaded(n) == [i \in 1..n |-> NewTrial(BgBase + i, 0, TRUE, i)]

Start(maxOps) ==
    /\ \E n \in PreloadSizes : rows = Preloaded(n)
    /\ now = 0
    /\ subscriptions = [u \in Users |-> NoSub]
    /\ betaUsers = {}
    /\ betaUserCount = 0
    /\ customers = << >>
    /\ stripeSubs = << >>
    /\ task = [s \in Slots |-> IdleTask]
    /\ last = Resp("none", 0, TRUE)
    /\ prev = Resp("none", 0, TRUE)
    /\ ops = maxOps
    /\ faults = MaxFaults

Init == Start(MaxOps)

\* a request in flight takes its next step
Step(s) ==
    \/ TcPrecheck(s)
    \/ CtCount(s)
    \/ CtNumber(s)
    \/ CtInsert(s)
    \/ BpCount(s)
    \/ BpIsBeta(s)
    \/ CsCustomerList(s)
    \/ CsCustomerCreate(s)
    \/ CsEndTrial(s)
    \/ CsStripeCreate(s)
    \/ CsWindow(s)
    \/ GsCustomer(s)
    \/ GsList(s)
    \/ GsCacheWrite(s)
    \/ UsRetrieve(s)
    \/ UsCancelFlag(s)
    \/ UsPlan(s)
    \/ CnCancel(s)

\* a request of the HTTP surface arrives
Arrive(s) ==
    \/ \E u \in Users : StartTrialCreate(s, u)
    \/ \E u \in Users : GetTrialStatus(s, u)
    \/ \E u \in Users : EndTrial(s, u)
    \/ CleanupExpiredTrials(s)
    \/ \E u \in Users : StartCanGetBetaPricing(s, u)
    \/ \E u \in Users, p \in RequestedPlans : StartCreateSubscription(s, u, p)
    \/ \E u \in Users : StartGetUserSubscription(s, u)
    \/ \E u \in Users, p \in UpdatePlans, c \in CancelFlags : StartUpdateSubscription(s, u, p, c)
    \/ \E u \in Users : StartCancelSubscription(s, u)

Webhook == \E type \in WebhookTypes, i \in SubIds : HandleWebhook(type, i)

\* requests are served concurrently
Next ==
    \/ \E s \in Slots : Arrive(s)
    \/ \E s \in Slots : Step(s)
    \/ Webhook
    \/ Tick

Spec == Init /\ [][Next]_vars

\* requests are served strictly one after another
NextSeq ==
    \/ AllIdle /\ Arrive(1)
    \/ Step(1)
    \/ AllIdle /\ Webhook
    \/ AllIdle /\ Tick

InitSeq == Start(MaxSeqOps)

SpecSeq == InitSeq /\ [][NextSeq]_vars


\* only TrialService.createTrial is called, one call after another
NextCreateSeq ==
    \/ AllIdle /\ \E u \in Users : StartCreateTrial(1, u)
    \/ CtCount(1)
    \/ CtNumber(1)
    \/ CtInsert(1)

SpecCreateSeq == InitSeq /\ [][NextCreateSeq]_vars

\* only the trial endpoints are called, one call after another
NextTrialSeq ==
    \/ AllIdle /\ \E u \in Users : StartTrialCreate(1, u)
    \/ TcPrecheck(1)
    \/ CtCount(1)
    \/ CtNumber(1)
    \/ CtInsert(1)
    \/ AllIdle /\ \E u \in Users : GetTrialStatus(1, u)
    \/ AllIdle /\ \E u \in Users : EndTrial(1, u)
    \/ AllIdle /\ CleanupExpiredTrials(1)
    \/ AllIdle /\ TickDays

InitTrialSeq == Start(MaxTrialOps)

SpecTrialSeq == InitTrialSeq /\ [][NextTrialSeq]_vars

\* only createTrial, endTrial, cleanupExpiredTrials and createSubscription are called,
\* one call after another
NextQuotaSeq ==
    \/ AllIdle /\ \E u \in Users : StartCreateTrial(1, u)
    \/ CtCount(1)
    \/ CtNumber(1)
    \/ CtInsert(1)
    \/ AllIdle /\ \E u \in Users : EndTrial(1, u)
    \/ AllIdle /\ CleanupExpiredTrials(1)
    \/ AllIdle /\ \E u \in Users, p \in RequestedPlans : StartCreateSubscription(1, u, p)
    \/ BpCount(1)
    \/ BpIsBeta(1)
    \/ CsCustomerList(1)
    \/ CsCustomerCreate(1)
    \/ CsEndTrial(1)
    \/ CsStripeCreate(1)
    \/ CsWindow(1)
    \/ AllIdle /\ Tick

InitQuotaSeq == Start(MaxQuotaOps)

SpecQuotaSeq == InitQuotaSeq /\ [][NextQuotaSeq]_vars

\* the payment state after n users without a trial (none of them acting later) subscribed
\* to the beta monthly plan one after another at time 0
SubscribedBefore(n) ==
    /\ customers = [i \in 1..n |-> [email |-> BgBase + i, userId |-> BgBase + i]]
    /\ stripeSubs = [i \in 1..n |->
                        [customer |-> i,
                         price |-> getPlan("beta-monthly").stripePriceId,
                         userId |-> BgBase + i,
                         planId |-> "beta-monthly",
                         isBetaUser |-> TRUE,
                         status |-> "incomplete",
                         current_period_start |-> 0,
                         current_period_end |-> PlatformPeriod("month"),
                         trial_end |-> 0,
                         cancel_at_period_end |-> FALSE]]
    /\ subscriptions = [u \in Users \cup {BgBase + i : i \in 1..n} |->
                           IF u \in Users
                           THEN NoSub
                           ELSE [found |-> TRUE,
                                 id |-> u - BgBase,
                                 userId |-> u,
                                 stripeCustomerId |-> u - BgBase,
                                 stripeSubscriptionId |-> u - BgBase,
                                 planId |-> "beta-monthly",
                                 status |-> "active",
                                 currentPeriodStart |-> 0,
                                 currentPeriodEnd |-> PlatformPeriod("month"),
                                 trialEnd |-> 0,
                                 cancelAtPeriodEnd |-> FALSE]]
    /\ betaUsers = {BgBase + i : i \in 1..n}
    /\ betaUserCount = n

InitSubscribeSeq ==
    /\ rows = << >>
    /\ now = 0
    /\ \E n \in PreloadSizes : SubscribedBefore(n)
    /\ task = [s \in Slots |-> IdleTask]
    /\ last = Resp("none", 0, TRUE)
    /\ prev = Resp("none", 0, TRUE)
    /\ ops = MaxSeqOps
    /\ faults = MaxFaults

\* only createSubscription is called, one call after another
NextSubscribeSeq ==
    \/ AllIdle /\ \E u \in Users, p \in RequestedPlans : StartCreateSubscription(1, u, p)
    \/ BpCount(1)
    \/ BpIsBeta(1)
    \/ CsCustomerList(1)
    \/ CsCustomerCreate(1)
    \/ CsEndTrial(1)
    \/ CsStripeCreate(1)
    \/ CsWindow(1)

SpecSubscribeSeq == InitSubscribeSeq /\ [][NextSubscribeSeq]_vars

\* only TrialService.createTrial is called, the calls served concurrently
NextCreate ==
    \/ \E s \in Slots, u \in Users : StartCreateTrial(s, u)
    \/ \E s \in Slots : CtCount(s)
    \/ \E s \in Slots : CtNumber(s)
    \/ \E s \in Slots : CtInsert(s)

SpecCreate == InitSeq /\ [][NextCreate]_vars

\* only createSubscription and webhooks are served, one after another, while the
\* platform may start trials
NextWebhookSeq ==
    \/ AllIdle /\ \E u \in Users, p \in WebhookSpecPlans : StartCreateSubscription(1, u, p)
    \/ BpCount(1)
    \/ BpIsBeta(1)
    \/ CsCustomerList(1)
    \/ CsCustomerCreate(1)
    \/ CsEndTrial(1)
    \/ CsStripeCreate(1)
    \/ CsWindow(1)
    \/ AllIdle /\ \E i \in SubIds : PlatformStartsTrial(i)
    \/ AllIdle /\ Webhook

InitWebhookSeq == Start(MaxWebhookOps)

SpecWebhookSeq == InitWebhookSeq /\ [][NextWebhookSeq]_vars

\* ------------------------------------------------------------------- claims

BetaRows == {i \in RowIds : rows[i].isBetaUser}

\* C1: createTrial calls served one after another never leave more than 100 rows with
\* isBetaUser = true: the 101st and later rows are not beta rows.
C1_QuotaCeiling ==
    /\ Cardinality(BetaRows) <= MAX_BETA_USERS
    /\ \A i \in RowIds : i > MAX_BETA_USERS => ~rows[i].isBetaUser

\* C2: with requests served one after another, the beta numbers of the beta rows are,
\* in creation order, strictly increasing and start at 1.
C2_BetaNumbering ==
    /\ \A i, j \in BetaRows : i < j => rows[i].betaUserNumber < rows[j].betaUserNumber
    /\ \A i \in BetaRows : (\A j \in BetaRows : i <= j) => rows[i].betaUserNumber = 1

\* C3: no step changes isBetaUser or betaUserNumber of a row that exists.
C3_Permanence ==
    [][\A i \in RowIds : /\ rows'[i].isBetaUser = rows[i].isBetaUser
                         /\ rows'[i].betaUserNumber = rows[i].betaUserNumber]_vars

\* a beta row of an acting user that createSubscription has ended and rewritten
C3_Witness ==
    \E i \in RowIds :
        /\ rows[i].userId \in Users
        /\ rows[i].isBetaUser
        /\ rows[i].betaUserNumber > 0
        /\ rows[i].trialEndDate = rows[i].trialStartDate + SUBSCRIPTION_WINDOW_DAYS * HOURS_PER_DAY

\* C4: canGetBetaPricing(userId) returns true if the active-beta count is below 100 or
\* the user's own active trial is a beta trial.
C4_BetaHolderEligible ==
    (AllIdle /\ last.op = "canGetBetaPricing" /\ last.ok)
        => ((get_beta_user_count < MAX_BETA_USERS \/ isBetaUser(last.userId, FALSE))
                => last.elig)

\* C5: the plan createSubscription sends to the platform, stores in the metadata, caches
\* and returns has the interval of the requested plan and is a beta plan exactly when
\* the eligibility it read is true.
Corrected(t, applied) ==
    /\ getPlan(applied) # NoPlan
    /\ getPlan(applied).interval = getPlan(t.planId).interval
    /\ getPlan(applied).isBeta = t.elig

C5_PlanCorrection ==
    [][\A s \in Slots :
          /\ (task[s].pc = "cs_stripe_create" /\ task'[s].pc = "cs_window")
                => LET created == stripeSubs'[Len(stripeSubs')]
                   IN  /\ Corrected(task[s], created.planId)
                       /\ created.price = getPlan(created.planId).stripePriceId
                       /\ subscriptions'[task[s].userId].planId = created.planId
          /\ (task[s].pc = "cs_window" /\ task'[s].pc = "idle")
                => /\ last'.ok
                   /\ last'.requested = task[s].planId
                   /\ last'.elig = task[s].elig
                   /\ Corrected(task[s], last'.applied)
                   /\ last'.sub.planId = last'.applied]_vars

\* beta-monthly requested by a user who is not eligible: regular-monthly is applied
C5_Witness ==
    /\ last.op = "createSubscription"
    /\ last.ok
    /\ last.requested = "beta-monthly"
    /\ ~last.elig
    /\ last.applied = "regular-monthly"
    /\ last.sub.planId = "regular-monthly"

\* C6: a row that has isActive = false never has isActive = true again.
C6_NeverReactivated ==
    [][\A i \in RowIds : ~rows[i].isActive => ~rows'[i].isActive]_vars

\* C7: every user has at most one row with isActive = true.
C7_OneActiveTrial ==
    \A u \in Users : Cardinality(ActiveRowsOf(u)) <= 1

\* C8: without a cancellation in between, at most one subscription object exists at the
\* payment platform for a user.
C8_NoDoubleCharging ==
    \A u \in Users :
        Cardinality({i \in SubIds : stripeSubs[i].userId = u /\ stripeSubs[i].status # "canceled"}) <= 1

\* C9: updateSubscription(userId, {planId: P, cancelAtPeriodEnd: c}) with P a valid plan
\* returns a subscription with planId = P and cancelAtPeriodEnd = c, and leaves it cached.
C9_UpdateReturnsFresh ==
    (/\ AllIdle
     /\ last.op = "updateSubscription"
     /\ last.ok
     /\ getPlan(last.requested) # NoPlan
     /\ last.flag # "undefined")
        => /\ last.sub.planId = last.requested
           /\ last.sub.cancelAtPeriodEnd = (last.flag = "true")
           /\ subscriptions[last.userId] = last.sub

\* C10: getUserSubscription right after a successful createSubscription of the same user
\* returns the cached record without an external lookup, with the applied plan and
\* status active.
C10_RoundTrip ==
    (/\ last.op = "getUserSubscription"
     /\ prev.op = "createSubscription"
     /\ prev.ok
     /\ prev.userId = last.userId)
        => /\ last.ok
           /\ last.lookups = 0
           /\ last.sub.found
           /\ last.sub = prev.sub
           /\ last.sub.planId = prev.applied
           /\ last.sub.status = "active"

C10_Witness ==
    /\ last.op = "getUserSubscription"
    /\ prev.op = "createSubscription"
    /\ prev.ok
    /\ prev.userId = last.userId
    /\ prev.requested = "regular-yearly"
    /\ last.sub.found
    /\ last.sub.planId = "beta-yearly"

\* C11: a cancelSubscription that succeeds cancels, at the platform, the subscription it
\* looked up, removes the user's cache entry and leaves the entries of the other users
\* alone; the getUserSubscription of the same user that follows it looks the subscription
\* up at the platform and returns what the platform holds (a canceled subscription), not
\* the evicted entry.
C11_Cancellation ==
    /\ [][\A s \in Slots :
             (task[s].pc = "cn_cancel" /\ task'[s].pc = "idle" /\ last'.ok)
                => /\ last'.op = "cancelSubscription"
                   /\ stripeSubs'[task[s].sub.stripeSubscriptionId].status = "canceled"
                   /\ ~subscriptions'[task[s].userId].found
                   /\ \A v \in DOMAIN subscriptions :
                          v # task[s].userId => subscriptions'[v] = subscriptions[v]]_vars
    /\ [](\A u \in Users :
             (/\ last.op = "getUserSubscription" /\ last.userId = u /\ last.ok
              /\ prev.op = "cancelSubscription" /\ prev.userId = u /\ prev.ok)
                => /\ last.lookups > 0
                   /\ last.sub.found => last.sub.status = "canceled")

\* createSubscription, cancelSubscription, getUserSubscription of one user: the last one
\* asks the platform twice and gets the canceled subscription
C11_Witness ==
    /\ last.op = "getUserSubscription"
    /\ last.ok
    /\ prev.op = "cancelSubscription"
    /\ prev.ok
    /\ prev.userId = last.userId
    /\ last.lookups = 2
    /\ last.sub.found
    /\ last.sub.status = "canceled"
    /\ subscriptions[last.userId] = last.sub

\* the step is a call of endTrial(u)
EndTrialStep(u) ==
    /\ ops' = ops - 1
    /\ now' = now
    /\ task' = task
    /\ prev' = last
    /\ last'.op = "endTrial"
    /\ last'.userId = u

\* C12: endTrial(userId) whose UPDATE the database executes does not error and leaves
\* every row of the user with isActive = false, whether the user had an active trial, an
\* inactive one or none; it changes nothing but isActive, and nothing in the rows of other
\* users; on a user with no active row (a second call in a row) it changes nothing.
C12_IdempotentEnd ==
    [][\A u \in Users :
          EndTrialStep(u)
             => /\ Len(rows') = Len(rows)
                /\ \A i \in RowIds : rows[i].userId # u => rows'[i] = rows[i]
                /\ \A i \in RowIds : rows'[i] = [rows[i] EXCEPT !.isActive = rows'[i].isActive]
                /\ ~last'.ok => rows' = rows
                /\ faults' = faults
                      => /\ last'.ok
                         /\ \A i \in RowIds : rows'[i].userId = u => ~rows'[i].isActive
                         /\ ActiveRowsOf(u) = {} => rows' = rows]_vars

\* endTrial called twice in a row for a user who had an active trial
C12_Witness ==
    /\ last.op = "endTrial"
    /\ last.ok
    /\ prev.op = "endTrial"
    /\ prev.ok
    /\ prev.userId = last.userId
    /\ \E i \in RowIds : rows[i].userId = last.userId
    /\ \A i \in RowIds : rows[i].userId = last.userId => ~rows[i].isActive

\* the step is a call of getTrialStatus(u)
GetTrialStatusStep(u) ==
    /\ ops' = ops - 1
    /\ now' = now
    /\ task' = task
    /\ prev' = last
    /\ last'.op = "getTrialStatus"
    /\ last'.userId = u

\* C13: for a user with one active row whose query succeeds, getTrialStatus returns
\* isInTrial = (now < trialEndDate), trialDaysRemaining = the least number of whole days
\* that covers trialEndDate - now when isInTrial and 0 otherwise, and
\* shouldShowPayment = ~isInTrial; so trialDaysRemaining >= 1 exactly when isInTrial.
C13_StatusComputation ==
    [][\A u \in Users :
          (GetTrialStatusStep(u) /\ faults' = faults /\ Cardinality(ActiveRowsOf(u)) = 1)
             => LET trial == rows[CHOOSE i \in ActiveRowsOf(u) : TRUE]
                    st == last'.status
                    diff == trial.trialEndDate - now
                IN  /\ st.found
                    /\ st.isInTrial = (now < trial.trialEndDate)
                    /\ st.isInTrial
                          => /\ st.trialDaysRemaining * HOURS_PER_DAY >= diff
                             /\ (st.trialDaysRemaining - 1) * HOURS_PER_DAY < diff
                    /\ ~st.isInTrial => st.trialDaysRemaining = 0
                    /\ st.shouldShowPayment = ~st.isInTrial
                    /\ (st.trialDaysRemaining >= 1) = st.isInTrial]_vars

\* the status read thirteen days into a fourteen-day trial: in trial, one day remaining
C13_Witness ==
    /\ last.op = "getTrialStatus"
    /\ last.status.found
    /\ last.status.isInTrial
    /\ last.status.trialDaysRemaining = 1
    /\ ~last.status.shouldShowPayment
    /\ now = last.status.trialEndDate - HOURS_PER_DAY
    /\ now = (TRIAL_DURATION_DAYS - 1) * HOURS_PER_DAY

\* the step is a call of cleanupExpiredTrials()
CleanupStep ==
    /\ ops' = ops - 1
    /\ now' = now
    /\ task' = task
    /\ prev' = last
    /\ last'.op = "cleanupExpiredTrials"

\* C14: a cleanupExpiredTrials() that succeeds sets isActive = false on exactly the rows
\* that were active with trialEndDate < now, returns their number and changes no other
\* row and no other field; after it no row is left to sweep, so a second call at once
\* changes nothing and returns 0. One that fails changes nothing.
C14_ExpirySweep ==
    [][CleanupStep
          => LET swept == {i \in RowIds : rows[i].isActive /\ rows[i].trialEndDate < now}
             IN  /\ Len(rows') = Len(rows)
                 /\ ~last'.ok => rows' = rows
                 /\ faults' = faults => last'.ok
                 /\ last'.ok
                       => /\ last'.count = Cardinality(swept)
                          /\ \A i \in RowIds :
                                rows'[i] = IF i \in swept
                                           THEN [rows[i] EXCEPT !.isActive = FALSE]
                                           ELSE rows[i]
                          /\ \A i \in RowIds : ~(rows'[i].isActive /\ rows'[i].trialEndDate < now')
                          /\ swept = {} => (rows' = rows /\ last'.count = 0)]_vars

\* a sweep that deactivated the expired rows and left an unexpired trial active, and a
\* second sweep right after it that found nothing
C14_Witness ==
    /\ prev.op = "cleanupExpiredTrials"
    /\ prev.ok
    /\ prev.count = MAX_BETA_USERS - 1
    /\ last.op = "cleanupExpiredTrials"
    /\ last.ok
    /\ last.count = 0
    /\ \E i \in RowIds : rows[i].isActive /\ rows[i].trialEndDate >= now
    /\ Cardinality({i \in RowIds : ~rows[i].isActive}) = MAX_BETA_USERS - 1

\* C15: getTrialStatus of a user right after a createSubscription of that user succeeded
\* reports no trial or isInTrial = false, never isInTrial = true.
C15_SubscribedNotInTrial ==
    (/\ last.op = "getTrialStatus"
     /\ prev.op = "createSubscription"
     /\ prev.ok
     /\ prev.userId = last.userId)
        => ~(last.status.found /\ last.status.isInTrial)

\* the user has no cache entry and no subscription at the payment platform
NoSubscriptionAnywhere(u) ==
    /\ ~subscriptions[u].found
    /\ \A i \in SubIds : stripeSubs[i].userId # u

\* C16: updateSubscription and cancelSubscription of a user who has neither a cache entry
\* nor a subscription at the platform look the user up, change neither the platform's
\* subscriptions nor the cache, and end with an error; so one that succeeded was for a
\* user with a subscription at the platform.
C16_NotFound ==
    /\ [][\A u \in Users :
             (/\ task[1].op \in {"updateSubscription", "cancelSubscription"}
              /\ task[1].userId = u
              /\ NoSubscriptionAnywhere(u))
                => /\ stripeSubs' = stripeSubs
                   /\ subscriptions' = subscriptions
                   /\ task'[1].pc \in {"gs_customer", "gs_list", "idle"}
                   /\ task'[1].pc = "idle" => (last'.op = task[1].op /\ ~last'.ok)]_vars
    /\ [](last.op \in {"updateSubscription", "cancelSubscription"} /\ last.ok
             => \E i \in SubIds : stripeSubs[i].userId = last.userId)

\* cancelSubscription, then updateSubscription, of a user without any subscription: both
\* asked the platform for the customer and failed, with no external call failing
C16_Witness ==
    /\ prev.op = "cancelSubscription"
    /\ ~prev.ok
    /\ last.op = "updateSubscription"
    /\ ~last.ok
    /\ last.lookups = 1
    /\ prev.userId = last.userId
    /\ NoSubscriptionAnywhere(last.userId)
    /\ faults = MaxFaults

RowsOf(u) == {i \in RowIds : rows[i].userId = u}

\* C17: with POST /trial/create, endTrial and cleanupExpiredTrials served one after
\* another and every database call succeeding, each user owns at most one row.
C17_OneRowPerUser ==
    faults = MaxFaults => \A u \in Users : Cardinality(RowsOf(u)) <= 1

\* C18: with createTrial, endTrial, cleanupExpiredTrials and createSubscription served one
\* after another and every external call succeeding, the number of rows with isActive and
\* isBetaUser never exceeds 100.
C18_ActiveBetaQuota ==
    faults = MaxFaults
        => Cardinality({i \in RowIds : rows[i].isActive /\ rows[i].isBetaUser}) <= MAX_BETA_USERS

\* the users to whom the platform holds a subscription on a beta-tier plan
BetaTierUsers ==
    {stripeSubs[i].userId : i \in {j \in SubIds : getPlan(stripeSubs[j].planId).isBeta}}

\* C19: with createSubscription calls served one after another, at most 100 distinct
\* users have had a beta-tier plan applied.
C19_BetaTierCap ==
    Cardinality(BetaTierUsers) <= MAX_BETA_USERS

\* C20: within createSubscription the subscription-create call is issued only after
\* endTrial has returned, with every row of the user inactive; when that call fails,
\* createSubscription fails, the rows stay as endTrial left them (all inactive), and the
\* cache, the beta-user set and its counter are as they were before the call, with no
\* subscription created.
C20_PartialFailure ==
    [][(task[1].op = "createSubscription")
          => LET u == task[1].userId
             IN  /\ (task'[1].pc = "cs_stripe_create" /\ task[1].pc # "cs_stripe_create")
                       => /\ task[1].pc = "cs_end_trial"
                          /\ \A i \in RowIds : rows'[i].userId = u => ~rows'[i].isActive
                 /\ task[1].pc # "cs_stripe_create"
                       => UNCHANGED <<subscriptions, betaUsers, betaUserCount, stripeSubs>>
                 /\ (task[1].pc = "cs_stripe_create" /\ task'[1].pc = "idle")
                       => /\ last'.op = "createSubscription"
                          /\ last'.userId = u
                          /\ ~last'.ok
                          /\ UNCHANGED <<rows, subscriptions, betaUsers, betaUserCount, stripeSubs>>
                          /\ \A i \in RowIds : rows'[i].userId = u => ~rows'[i].isActive]_vars

\* a user with a fresh trial whose createSubscription failed at the subscription-create
\* call: a customer exists, the trial is ended, there is no subscription
C20_Witness ==
    /\ prev.op = "trialCreate"
    /\ prev.ok
    /\ last.op = "createSubscription"
    /\ ~last.ok
    /\ last.userId = prev.userId
    /\ rows[prev.rowId].userId = last.userId
    /\ ~rows[prev.rowId].isActive
    /\ \E c \in CustomerIds : customers[c].userId = last.userId
    /\ NoSubscriptionAnywhere(last.userId)
    /\ betaUsers = {}
    /\ betaUserCount = 0

\* the step handles a webhook event of the given type about a subscription of user u
WebhookStep(type, u) ==
    /\ ops' = ops - 1
    /\ now' = now
    /\ \A s \in Slots : task'[s].pc = task[s].pc
    /\ prev' = last
    /\ last'.op = "webhook"
    /\ last'.event = type
    /\ last'.userId = u

CachedUsers == {v \in DOMAIN subscriptions : subscriptions[v].found}

\* the process after a restart: every user subscribed to the beta monthly plan before it,
\* the platform keeps the customers and the subscriptions, the in-memory maps are empty
InitRestarted ==
    /\ rows = << >>
    /\ now = 0
    /\ subscriptions = [u \in Users |-> NoSub]
    /\ betaUsers = {}
    /\ betaUserCount = 0
    /\ customers = [u \in Users |-> [email |-> u, userId |-> u]]
    /\ stripeSubs = [u \in Users |-> NewStripeSubscription(u, u, getPlan("beta-monthly"))]
    /\ task = [s \in Slots |-> IdleTask]
    /\ last = Resp("none", 0, TRUE)
    /\ prev = Resp("none", 0, TRUE)
    /\ ops = MaxRaceOps
    /\ faults = MaxFaults

\* lookups, cancellations and webhook events, served concurrently
NextLookupRace ==
    \/ \E s \in Slots, u \in Users : StartGetUserSubscription(s, u)
    \/ \E s \in Slots, u \in Users : StartCancelSubscription(s, u)
    \/ \E s \in Slots : GsCustomer(s)
    \/ \E s \in Slots : GsList(s)
    \/ \E s \in Slots : GsCacheWrite(s)
    \/ \E s \in Slots : CnCancel(s)
    \/ Webhook

SpecLookupRace == InitRestarted /\ [][NextLookupRace]_vars

\* C21: handling a webhook event of any type adds no user to the subscription cache and
\* touches no entry but that of the event's user; an updated event of a user without an
\* entry, and every created, invoice or unknown event, leaves the cache as it was; no
\* event changes the beta set, its counter or a trial row.
C21_WebhookCreatesNoEntry ==
    [][\A type \in WebhookTypes, u \in Users :
          WebhookStep(type, u)
             => /\ CachedUsers' \subseteq CachedUsers
                /\ \A v \in DOMAIN subscriptions : v # u => subscriptions'[v] = subscriptions[v]
                /\ UNCHANGED <<rows, betaUsers, betaUserCount>>
                /\ (type = "customer.subscription.updated" /\ ~subscriptions[u].found)
                      => subscriptions' = subscriptions
                /\ type \notin {"customer.subscription.updated", "customer.subscription.deleted"}
                      => subscriptions' = subscriptions]_vars

\* an updated event about the subscription of a user whose cache entry was evicted by
\* cancelSubscription: the user still has no entry
C21_Witness ==
    /\ prev.op = "cancelSubscription"
    /\ prev.ok
    /\ last.op = "webhook"
    /\ last.event = "customer.subscription.updated"
    /\ last.userId = prev.userId
    /\ \E i \in SubIds : stripeSubs[i].userId = last.userId
    /\ ~subscriptions[last.userId].found

\* C22: in every reachable state a row has a betaUserNumber (a positive integer, not
\* null) exactly when its isBetaUser is true.
C22_NumberIffBeta ==
    \A i \in RowIds : (rows[i].betaUserNumber > 0) = rows[i].isBetaUser

\* the 100th trial, a numbered beta trial, and the 101st, a trial without a number
C22_Witness ==
    \E i, j \in RowIds :
        /\ rows[i].userId \in Users
        /\ rows[i].isBetaUser
        /\ rows[i].betaUserNumber = MAX_BETA_USERS
        /\ rows[j].userId \in Users
        /\ ~rows[j].isBetaUser
        /\ rows[j].betaUserNumber = 0

ActiveBetaRows == {i \in RowIds : rows[i].isActive /\ rows[i].isBetaUser}

\* C23: createTrial admits by the count it read, whatever the count is when it inserts:
\* the row a call inserts has isBetaUser = (the count the call read < 100). So calls served
\* concurrently can overshoot the ceiling, by at most the number of concurrent calls less
\* one while every read succeeds.
C23_OverAdmission ==
    /\ [][\A s \in Slots :
             (task[s].pc = "ct_insert" /\ task'[s].pc = "idle" /\ Len(rows') = Len(rows) + 1)
                => rows'[Len(rows')].isBetaUser = (task[s].count < MAX_BETA_USERS)]_vars
    /\ [](faults = MaxFaults
             => Cardinality(ActiveBetaRows) <= MAX_BETA_USERS + Cardinality(Slots) - 1)

\* two calls for different users both read 99 and both inserted a beta row: 101 active
\* beta rows
C23_Witness ==
    /\ faults = MaxFaults
    /\ Cardinality(ActiveBetaRows) = MAX_BETA_USERS + 1
    /\ last.op = "createTrial"
    /\ prev.op = "createTrial"
    /\ last.userId # prev.userId
    /\ last.count = MAX_BETA_USERS - 1
    /\ prev.count = MAX_BETA_USERS - 1
    /\ rows[last.rowId].isBetaUser
    /\ rows[prev.rowId].isBetaUser

\* at most one request is in flight
OneAtATime == Cardinality({s \in Slots : task[s].pc # "idle"}) <= 1

DistinctBetaNumbers ==
    \A i, j \in BetaRows : i # j => rows[i].betaUserNumber # rows[j].betaUserNumber

\* C24: a createTrial call whose number read succeeds reads the highest beta number of
\* the table plus one, and the beta row it inserts later carries the number it read; so
\* two calls in flight together can insert the same number, while calls that are never in
\* flight together, every read succeeding, give distinct numbers.
C24_DuplicateNumber ==
    /\ [][\A s \in Slots :
             /\ (task[s].pc = "ct_number" /\ task'[s].pc = "ct_insert" /\ faults' = faults)
                   => task'[s].number =
                         MaxOf({rows[i].betaUserNumber : i \in BetaRows}) + 1
             /\ (/\ task[s].pc = "ct_insert" /\ task'[s].pc = "idle"
                 /\ Len(rows') = Len(rows) + 1 /\ rows'[Len(rows')].isBetaUser)
                   => rows'[Len(rows')].betaUserNumber = task[s].number]_vars
    /\ ([]OneAtATime => [](faults = MaxFaults => DistinctBetaNumbers))

\* two beta rows of different users with the same number, every read having succeeded
C24_Witness ==
    /\ faults = MaxFaults
    /\ last.op = "createTrial"
    /\ prev.op = "createTrial"
    /\ last.ok
    /\ prev.ok
    /\ last.userId # prev.userId
    /\ last.rowId # prev.rowId
    /\ rows[last.rowId].isBetaUser
    /\ rows[prev.rowId].isBetaUser
    /\ rows[last.rowId].betaUserNumber = rows[prev.rowId].betaUserNumber

\* C25: an updated event about a subscription of a user who has a cache entry leaves the
\* entry with the event's status, period start, period end, trial end (none when the
\* event carries none) and cancel flag, with its userId, planId, customer id and
\* subscription id as they were, and leaves the entries of other users alone.
C25_WebhookUpdateInPlace ==
    [][\A u \in Users :
          (WebhookStep("customer.subscription.updated", u) /\ subscriptions[u].found)
             => LET event == stripeSubs[last'.subId]
                    old == subscriptions[u]
                    new == subscriptions'[u]
                IN  /\ new.found
                    /\ new.status = event.status
                    /\ new.currentPeriodStart = event.current_period_start
                    /\ new.currentPeriodEnd = event.current_period_end
                    /\ new.trialEnd = event.trial_end
                    /\ new.cancelAtPeriodEnd = event.cancel_at_period_end
                    /\ new.userId = old.userId
                    /\ new.planId = old.planId
                    /\ new.stripeCustomerId = old.stripeCustomerId
                    /\ new.stripeSubscriptionId = old.stripeSubscriptionId
                    /\ \A v \in DOMAIN subscriptions :
                           v # u => subscriptions'[v] = subscriptions[v]]_vars

PlanIds == {SUBSCRIPTION_PLANS[i].id : i \in 1..Len(SUBSCRIPTION_PLANS)}

\* C26: createSubscription with a planId that is not in the catalog fails at once: no
\* external call is made, and the trial rows, the platform's customers and subscriptions,
\* the cache, the beta set and its counter are unchanged; no createSubscription with an
\* unknown plan is ever in flight or successful.
C26_InvalidPlan ==
    /\ [][(/\ ops' = ops - 1
            /\ now' = now
            /\ prev' = last
            /\ \A s \in Slots : task'[s].pc = task[s].pc
            /\ last'.op = "createSubscription"
            /\ last'.requested \notin PlanIds)
              => /\ ~last'.ok
                 /\ UNCHANGED <<rows, customers, stripeSubs, subscriptions, betaUsers,
                                betaUserCount, task, faults>>]_vars
    /\ [](/\ \A s \in Slots : task[s].op = "createSubscription" => task[s].planId \in PlanIds
          /\ (last.op = "createSubscription" /\ last.ok) => last.requested \in PlanIds)

\* a user with an active trial asked for an unknown plan: the call failed, the trial is
\* still active, the platform knows no customer
C26_Witness ==
    /\ prev.op = "trialCreate"
    /\ prev.ok
    /\ last.op = "createSubscription"
    /\ ~last.ok
    /\ last.userId = prev.userId
    /\ last.requested = "no-such-plan"
    /\ rows[prev.rowId].isActive
    /\ customers = << >>
    /\ stripeSubs = << >>
    /\ faults = MaxFaults

\* C27: in every reachable state betaUserCount equals the number of users in betaUsers.
C27_BetaCountMatchesSet ==
    betaUserCount = Cardinality(betaUsers)

\* C28: while an updateSubscription whose planId names no plan of the catalog is served,
\* no subscription at the payment platform changes (its cancel_at_period_end included).
C28_UpdateAllOrNothing ==
    [][(/\ task[1].op = "updateSubscription"
        /\ task[1].planId # "undefined"
        /\ task[1].planId \notin PlanIds)
          => stripeSubs' = stripeSubs]_vars

\* C29: a createTrial inserts a beta row, and a canGetBetaPricing answers true, only when
\* the request's read of the active-beta count succeeded and returned less than 100.
C29_AdmissionNeedsCountRead ==
    [][\A s \in Slots :
          /\ (/\ task[s].pc = "ct_insert"
              /\ task'[s].pc = "idle"
              /\ Len(rows') = Len(rows) + 1
              /\ rows'[Len(rows')].isBetaUser)
                => (~task[s].countFailed /\ task[s].count < MAX_BETA_USERS)
          /\ (/\ task[s].op = "canGetBetaPricing"
              /\ task[s].pc = "bp_is_beta"
              /\ task'[s].pc = "idle"
              /\ last'.elig)
                => (~task[s].countFailed /\ task[s].count < MAX_BETA_USERS)]_vars

\* a subscription-deleted event about subscription i is one of the two last completed
\* operations
DeletedHandled(i) ==
    \/ last.op = "webhook" /\ last.event = "customer.subscription.deleted" /\ last.subId = i
    \/ prev.op = "webhook" /\ prev.event = "customer.subscription.deleted" /\ prev.subId = i

\* C30: once a subscription-deleted event has been handled and no request is in flight,
\* the cache has no entry that shows the deleted subscription with a status other than
\* canceled.
C30_NoStaleResurrection ==
    \A i \in SubIds :
        (AllIdle /\ DeletedHandled(i))
            => LET c == subscriptions[stripeSubs[i].userId]
               IN  ~(c.found /\ c.stripeSubscriptionId = i /\ c.status # "canceled")

====
